---------------------------- MODULE Spec2Model ----------------------------
(***************************************************************************)
(* Quick Read Wizard: one session of the single-active-document pipeline.  *)
(*                                                                         *)
(*   storage   the relational schema of backend/schema.sql: documents,     *)
(*             chunks, embeddings, with their keys, the UNIQUE constraint  *)
(*             and the ON DELETE CASCADE foreign keys;                     *)
(*   server    the session lifecycle manager behind /api (its code is not  *)
(*             part of the sources; it is modelled from spec.md, sections  *)
(*             4.5, 4.6 and 5);                                            *)
(*   client    App (QuickReadWizard.jsx), DocumentInput, FileStatus,       *)
(*             Summary and AskQuestions, with the requests of apiService   *)
(*             in flight between client and server.                        *)
(*                                                                         *)
(* A document, a summary and an answer are identified by the file_id of    *)
(* the document they were made from; 0 stands for null / '' / none.        *)
(* Every ingest gets a fresh file_id (schema.sql:11, UUID-based).          *)
(***************************************************************************)
EXTENDS Integers, FiniteSets, Bags, TLC

(* ------------------------------ bounds -------------------------------- *)

\* file_ids handed out in one behaviour (1..MaxFileId)
MaxFileId == 2

\* chunks the chunker produces for one document (1..MaxChunks)
MaxChunks == 2

\* requests, responses and armed retry timers outstanding at one time
MaxInFlight == 2

\* chunks the embedding model takes in one batch call (1..BatchSize)
BatchSize == 1

\* suggest-questions requests counted for one document (the count stops here)
MaxSent == 4

(* ----------------------------- the state ------------------------------ *)

VARIABLES
  \* storage (schema.sql)
  documents,        \* rows [file_id, source_type]
  chunks,           \* rows [chunk_id, file_id, chunk_index]
  embeddings,       \* rows [chunk_id, embedding]
  \* server session
  active_file_id,   \* 0 = no active document
  cached_summary,   \* 0 = none, else the file_id it summarizes
  next_file_id,     \* the next fresh file_id
  embCall,          \* the ensure_embedded call in progress, if any
  embLast,          \* what the last finished ensure_embedded call reported
  \* network
  reqs,             \* bag of requests sent and not yet handled
  resps,            \* bag of responses sent and not yet delivered
  \* App state (schema.sql:119-124)
  fileInfo, summary, isUploadingFile, isSummarizing, isAskingQuestion, error,
  \* AskQuestions state (part_002:13-15) and its armed handleSubmit retries
  question, answer, isAsking, askRetryTimers,
  \* AskQuestions: the suggested questions (part_002:16-18), the 500 ms
  \* timer of its effect, the generateSuggestedQuestions calls in their
  \* 1 s delay and the armed retries of generateSuggestedQuestions
  suggestedQuestions, isLoadingQuestions, questionsGenerated,
  effectTimer, sqDelaying, sqRetryTimers,
  \* history: the suggest-questions requests sent since fileInfo was set or
  \* the questions were refreshed
  sqSent,
  \* history: what changed the server state last; whether an ingest call is
  \* outstanding that no remove call has overlapped; the file_id of the last
  \* successful ingest call of the client, if no remove call overlapped it
  \* and the client has sent no ingest or remove request since
  srvLast, ingestClean, ingestAck,
  \* history: the last file or URL given to DocumentInput in a traced
  \* behaviour, and whether a request was sent for it
  lastInput

storageVars == <<documents, chunks, embeddings>>
embVars     == <<embCall, embLast>>
serverVars  == <<active_file_id, cached_summary, next_file_id, embVars>>
netVars     == <<reqs, resps>>
appVars     == <<fileInfo, summary, isUploadingFile, isSummarizing,
                 isAskingQuestion, error>>
sqVars      == <<suggestedQuestions, isLoadingQuestions, questionsGenerated,
                 effectTimer, sqDelaying, sqRetryTimers, sqSent>>
askVars     == <<question, answer, isAsking, askRetryTimers, sqVars>>
histVars    == <<srvLast, ingestClean, ingestAck, lastInput>>
vars == <<storageVars, serverVars, netVars, appVars, askVars, histVars>>

(* ------------------- storage: backend/schema.sql ---------------------- *)

\* CHECK (source_type IN ('pdf', 'url'))
SourceTypes == {"pdf", "url"}

\* values an embedding column can hold (the vector itself is opaque)
Vectors == {"v1", "v2"}

FileIds  == 1..MaxFileId
Indexes  == 0..(MaxChunks - 1)

\* chunk_id values the raw statements draw from
RawChunkIds == 1..MaxChunks

DocIds(docs) == {d.file_id : d \in docs}

\* documents: file_id PRIMARY KEY, source_type NOT NULL CHECK
CanInsertDocument(docs, f, t) ==
  /\ f \notin DocIds(docs)
  /\ t \in SourceTypes

\* two chunks of a document may carry the same chunk_index
CanInsertChunkNoUnique(cs, docs, c, f, i) ==
  /\ \A x \in cs : x.chunk_id # c
  /\ f \in DocIds(docs)

\* chunks: chunk_id PRIMARY KEY, file_id REFERENCES documents,
\* UNIQUE(file_id, chunk_index)
CanInsertChunk(cs, docs, c, f, i) ==
  /\ \A x \in cs : x.chunk_id # c
  /\ f \in DocIds(docs)
  /\ \A x \in cs : ~(x.file_id = f /\ x.chunk_index = i)

\* a second row for a chunk_id that already has an embedding is accepted
CanInsertEmbeddingNoKey(c) ==
  \E x \in chunks : x.chunk_id = c

\* embeddings: chunk_id PRIMARY KEY REFERENCES chunks
CanInsertEmbedding(c) ==
  /\ \A e \in embeddings : e.chunk_id # c
  /\ \E x \in chunks : x.chunk_id = c

\* the document row stays where it is
DocumentsAfterDeleteKept(docs, f) == docs

\* DELETE FROM documents WHERE file_id = f
DocumentsAfterDelete(docs, f) == {d \in docs : d.file_id # f}

\* the chunks of a deleted document stay behind
ChunksAfterDeleteKept(cs, f) == cs

\* chunks.file_id ... ON DELETE CASCADE
ChunksAfterDelete(cs, f) == {x \in cs : x.file_id # f}

\* the embeddings of deleted chunks stay behind
EmbeddingsAfterDeleteKept(es, cs) == es

\* embeddings.chunk_id ... ON DELETE CASCADE: what is left of es when
\* only the chunks cs are left
EmbeddingsAfterDelete(es, cs) ==
  {e \in es : \E x \in cs : x.chunk_id = e.chunk_id}

\* the view document_stats / embedding_coverage for one document:
\* documents LEFT JOIN chunks LEFT JOIN embeddings, one row per match
CoverageJoin(f) ==
  {<<x, e>> : x \in {y \in chunks : y.file_id = f},
              e \in embeddings \cup {[chunk_id |-> 0, embedding |-> "null"]}}

JoinRows(f) ==
  {r \in CoverageJoin(f) :
     \/ r[2].chunk_id = r[1].chunk_id
     \/ /\ r[2].chunk_id = 0
        /\ \A e \in embeddings : e.chunk_id # r[1].chunk_id}

\* COUNT(c.chunk_id) as total_chunks
total_chunks(f) == Cardinality(JoinRows(f))

\* COUNT(e.chunk_id) as embedded_chunks
embedded_chunks(f) == Cardinality({r \in JoinRows(f) : r[2].chunk_id # 0})

\* history: the statement or server operation that changed the state last,
\* the session state it started from and the rows it deleted
Did(op, from, id, rows) == [op |-> op, from |-> from, id |-> id, rows |-> rows]

Rows == Cardinality(documents) + Cardinality(chunks) + Cardinality(embeddings)

(* raw statements the schema accepts *)

SqlInsertDocument ==
  /\ \E f \in FileIds, t \in {"pdf", "doc"} :
       /\ CanInsertDocument(documents, f, t)
       /\ documents' = documents \cup {[file_id |-> f, source_type |-> t]}
  /\ srvLast' = Did("sql", "Empty", 0, 0)
  /\ UNCHANGED <<chunks, embeddings, serverVars, netVars, appVars, askVars,
                 ingestClean, ingestAck, lastInput>>

SqlInsertChunk ==
  /\ \E c \in RawChunkIds, f \in FileIds, i \in Indexes :
       /\ CanInsertChunk(chunks, documents, c, f, i)
       /\ chunks' = chunks \cup
            {[chunk_id |-> c, file_id |-> f, chunk_index |-> i]}
  /\ srvLast' = Did("sql", "Empty", 0, 0)
  /\ UNCHANGED <<documents, embeddings, serverVars, netVars, appVars, askVars,
                 ingestClean, ingestAck, lastInput>>

SqlInsertEmbedding ==
  /\ \E x \in chunks, v \in Vectors :
       /\ CanInsertEmbedding(x.chunk_id)
       /\ embeddings' = embeddings \cup
            {[chunk_id |-> x.chunk_id, embedding |-> v]}
  /\ srvLast' = Did("sql", "Empty", 0, 0)
  /\ UNCHANGED <<documents, chunks, serverVars, netVars, appVars, askVars,
                 ingestClean, ingestAck, lastInput>>

SqlDeleteDocument ==
  /\ \E d \in documents :
       /\ documents' = DocumentsAfterDelete(documents, d.file_id)
       /\ chunks' = ChunksAfterDelete(chunks, d.file_id)
       /\ embeddings' = EmbeddingsAfterDelete(embeddings, chunks')
       /\ srvLast' = Did("delete document", "Empty", d.file_id,
                         Cardinality(chunks) + Cardinality(embeddings)
                         - Cardinality(chunks') - Cardinality(embeddings'))
  /\ UNCHANGED <<serverVars, netVars, appVars, askVars, ingestClean, ingestAck, lastInput>>

SqlDeleteChunk ==
  /\ \E x \in chunks :
       /\ chunks' = chunks \ {x}
       /\ embeddings' = EmbeddingsAfterDelete(embeddings, chunks')
  /\ srvLast' = Did("sql", "Empty", 0, 0)
  /\ UNCHANGED <<documents, serverVars, netVars, appVars, askVars,
                 ingestClean, ingestAck, lastInput>>

SqlDeleteEmbedding ==
  /\ \E e \in embeddings : embeddings' = embeddings \ {e}
  /\ srvLast' = Did("sql", "Empty", 0, 0)
  /\ UNCHANGED <<documents, chunks, serverVars, netVars, appVars, askVars,
                 ingestClean, ingestAck, lastInput>>

(* ------------------------- requests in flight ------------------------- *)

\* apiService: one request per call; retry is the retryAttempt of the
\* handler that awaits the response
ReqWith(kind, retry, arg) == [kind |-> kind, retry |-> retry, arg |-> arg]

Req(kind, retry) == ReqWith(kind, retry, "")

Resp(kind, retry, ok, err, file, sum) ==
  [kind |-> kind, retry |-> retry, ok |-> ok, err |-> err,
   file |-> file, sum |-> sum]

Put(bag, m)  == bag (+) SetToBag({m})
Take(bag, m) == bag (-) SetToBag({m})

InFlight ==
  BagCardinality(reqs) + BagCardinality(resps) + askRetryTimers
    + sqDelaying + BagCardinality(sqRetryTimers)

IngestKinds == {"upload", "analyzeUrl"}

\* a remove call is between its request and its response
RemoveOutstanding ==
  \E r \in BagToSet(reqs) \cup BagToSet(resps) : r.kind = "remove"

SourceTypeOf(kind) == IF kind = "upload" THEN "pdf" ELSE "url"

(* ----------------- server session (spec.md 4.5, 4.6, 5) ---------------- *)

SessionState ==
  IF active_file_id = 0 THEN "Empty"
  ELSE IF cached_summary # 0 THEN "Summarized" ELSE "Loaded"

\* the chunker's output for document f: n chunks, chunk_index 0..n-1, with
\* the chunk_ids after base
NewChunks(f, n, base) ==
  {[chunk_id |-> base + i + 1, file_id |-> f, chunk_index |-> i] :
     i \in 0..(n - 1)}

\* gen_random_uuid() never gives a chunk_id used before: the server's
\* chunk_ids for document f are those after FreshBase(f)
FreshBase(f) == (f - 1) * MaxChunks

\* the storage transaction of a successful ingest of document f
StoreDocument(f, t, n, base, docs, cs) ==
  /\ CanInsertDocument(docs, f, t)
  /\ \A x \in NewChunks(f, n, base) : \A y \in cs : y.chunk_id # x.chunk_id
  /\ documents' = docs \cup {[file_id |-> f, source_type |-> t]}
  /\ chunks' = cs \cup NewChunks(f, n, base)

\* the session keeps pointing at the document it had
ActiveAfterIngestStale(old, new) == old

\* ingest establishes the session's active_file_id before it responds
ActiveAfterIngest(old, new) == new

\* get-status: the active document descriptor and the cached summary
ServerStatus ==
  /\ \E m \in BagToSet(reqs) :
       /\ m.kind = "status"
       /\ reqs' = Take(reqs, m)
       /\ resps' = Put(resps, Resp("status", 0, TRUE, "", active_file_id,
                                   cached_summary))
  /\ UNCHANGED <<storageVars, serverVars, appVars, askVars, histVars>>

\* ingest succeeds: the old document goes (cascade), the new document and
\* its chunks are stored, the session points at it, then the response
ServerIngest ==
  /\ \E m \in BagToSet(reqs), n \in 1..MaxChunks :
       LET f    == next_file_id
           docs == DocumentsAfterDelete(documents, active_file_id)
           kept == ChunksAfterDelete(chunks, active_file_id)
       IN  /\ m.kind \in IngestKinds
           /\ f \in FileIds
           /\ reqs' = Take(reqs, m)
           /\ embeddings' = EmbeddingsAfterDelete(embeddings, kept)
           /\ StoreDocument(f, SourceTypeOf(m.kind), n, FreshBase(f), docs,
                            kept)
           /\ active_file_id' = ActiveAfterIngest(active_file_id, f)
           /\ cached_summary' = 0
           /\ next_file_id' = f + 1
           /\ srvLast' = Did("ingest", SessionState, f,
                             Rows - Cardinality(docs) - Cardinality(kept)
                             - Cardinality(embeddings'))
           /\ resps' = Put(resps, Resp(m.kind, 0, TRUE, "", f, 0))
  /\ UNCHANGED <<embVars, appVars, askVars, ingestClean, ingestAck,
                 lastInput>>

\* the failed transaction's writes stay
RolledBackPartial(before, partial) == partial

\* a failed ingest is rolled back wholesale
RolledBack(before, partial) == before

\* bodies of an error response: with or without an "error" field
IngestErrors == {"", "Extraction failed"}

\* ingest fails after the old document was deleted and the new document and
\* k of its chunks were written: everything is rolled back, then the error
\* response
ServerIngestFails ==
  /\ \E m \in BagToSet(reqs), k \in 0..MaxChunks, err \in IngestErrors :
       LET f    == next_file_id
           docs == DocumentsAfterDelete(documents, active_file_id)
           kept == ChunksAfterDelete(chunks, active_file_id)
       IN  /\ m.kind \in IngestKinds
           /\ reqs' = Take(reqs, m)
           /\ documents' = RolledBack(documents, docs \cup
                 {[file_id |-> f, source_type |-> SourceTypeOf(m.kind)]})
           /\ chunks' = RolledBack(chunks,
                 kept \cup NewChunks(f, k, FreshBase(f)))
           /\ embeddings' = RolledBack(embeddings,
                 EmbeddingsAfterDelete(embeddings, kept))
           /\ cached_summary' = RolledBack(cached_summary, 0)
           /\ resps' = Put(resps, Resp(m.kind, 0, FALSE, err, 0, 0))
  /\ UNCHANGED <<active_file_id, next_file_id, embVars, appVars, askVars,
                 histVars>>

\* embedding proceeds after ingest, one chunk of the active document a time
ServerEmbed ==
  /\ \E x \in chunks :
       /\ x.file_id = active_file_id
       /\ CanInsertEmbedding(x.chunk_id)
       /\ embeddings' = embeddings \cup
            {[chunk_id |-> x.chunk_id, embedding |-> "v1"]}
  /\ UNCHANGED <<documents, chunks, serverVars, netVars, appVars, askVars,
                 histVars>>

(* the Embedding Coordinator (spec.md 4.3) *)

NoCall == [state |-> "idle", file |-> 0, todo |-> {}, sent |-> {},
           skipped |-> {}, calls |-> 0, failed |-> FALSE,
           chunksAtStart |-> {}, embeddingsAtStart |-> {}]

NoReport == [file |-> 0, calls |-> 0, unembedded |-> 0, failed |-> FALSE,
             chunks |-> {}, embeddings |-> {}]

\* the chunk_ids of document f that have no embedding row
Unembedded(f) ==
  {x.chunk_id : x \in {y \in chunks : y.file_id = f /\
                         \A e \in embeddings : e.chunk_id # y.chunk_id}}

\* every chunk of the document is embedded again
ToEmbedAll(f) == {x.chunk_id : x \in {y \in chunks : y.file_id = f}}

\* ensure_embedded processes the chunks of the document missing an embedding
ToEmbed(f) == Unembedded(f)

\* ensure_embedded(f) is called
EnsureStart ==
  /\ embCall.state = "idle"
  /\ \E f \in DocIds(documents) :
       embCall' = [NoCall EXCEPT !.state = "running", !.file = f,
                                 !.todo = ToEmbed(f),
                                 !.chunksAtStart = {y \in chunks : y.file_id = f},
                                 !.embeddingsAtStart = embeddings]
  /\ UNCHANGED <<storageVars, active_file_id, cached_summary, next_file_id,
                 embLast, netVars, appVars, askVars, histVars>>

\* the batches the coordinator can form next: up to BatchSize chunks
Batches(todo) ==
  {b \in SUBSET todo : b # {} /\ Cardinality(b) <= BatchSize /\
     (Cardinality(b) = BatchSize \/ b = todo)}

\* one batch call to the embedding model: it returns the vectors, or it
\* fails as a whole (after its retries), or it turns one chunk away as
\* oversized and returns the vectors of the others
EnsureBatch ==
  /\ embCall.state = "running" /\ ~embCall.failed /\ embCall.todo # {}
  /\ \E b \in Batches(embCall.todo), outcome \in {"ok", "failed", "oversized"} :
       \E bad \in b :
         LET stored == IF outcome = "ok" THEN b
                       ELSE IF outcome = "oversized" THEN b \ {bad} ELSE {}
         IN  /\ \A c \in stored : CanInsertEmbedding(c)
             /\ embeddings' = embeddings \cup
                  {[chunk_id |-> c, embedding |-> "v1"] : c \in stored}
             /\ embCall' = [embCall EXCEPT
                   !.calls = @ + 1,
                   !.sent = @ \cup b,
                   !.failed = (outcome = "failed"),
                   !.todo = IF outcome = "failed" THEN @ ELSE @ \ b,
                   !.skipped = IF outcome = "oversized" THEN @ \cup {bad}
                               ELSE @]
  /\ UNCHANGED <<documents, chunks, active_file_id, cached_summary,
                 next_file_id, embLast, netVars, appVars, askVars, histVars>>

\* the report leaves out the chunks that were skipped
RemainingWithoutSkipped(call) == Cardinality(call.todo)

\* the number of chunks the call reports as unembedded: those not
\* processed and those skipped
Remaining(call) == Cardinality(call.todo \cup call.skipped)

\* ensure_embedded returns its report
EnsureEnd ==
  /\ embCall.state = "running"
  /\ embCall.failed \/ embCall.todo = {}
  /\ embLast' = [file |-> embCall.file, calls |-> embCall.calls,
                 unembedded |-> Remaining(embCall),
                 failed |-> embCall.failed,
                 chunks |-> {y \in chunks : y.file_id = embCall.file},
                 embeddings |-> embeddings]
  /\ embCall' = NoCall
  /\ UNCHANGED <<storageVars, active_file_id, cached_summary, next_file_id,
                 netVars, appVars, askVars, histVars>>

\* summarize: Loaded -> Summarized, or NoActiveDocument, or the generation
\* model fails
ServerSummarize ==
  /\ \E m \in BagToSet(reqs), genOk \in BOOLEAN :
       /\ m.kind = "summarize"
       /\ reqs' = Take(reqs, m)
       /\ IF active_file_id = 0
          THEN /\ resps' = Put(resps, Resp("summarize", 0, FALSE,
                                          "No file uploaded", 0, 0))
               /\ UNCHANGED <<cached_summary, srvLast>>
          ELSE IF genOk
          THEN /\ cached_summary' = active_file_id
               /\ srvLast' = Did("summarize", SessionState, active_file_id, 0)
               /\ resps' = Put(resps, Resp("summarize", 0, TRUE, "", 0,
                                          active_file_id))
          ELSE /\ resps' = Put(resps, Resp("summarize", 0, FALSE,
                                          "Generation failed", 0, 0))
               /\ UNCHANGED <<cached_summary, srvLast>>
  /\ UNCHANGED <<storageVars, active_file_id, next_file_id, embVars, appVars,
                 askVars, ingestClean, ingestAck, lastInput>>

(* the Retriever (spec.md 4.4) *)

\* the chunk_ids of document f that have an embedding row
Embedded(f) ==
  {x.chunk_id : x \in {y \in chunks : y.file_id = f /\
                         \E e \in embeddings : e.chunk_id = y.chunk_id}}

\* top_k(file_id, query_vector, k): nearest neighbours among the vectors
\* stored for the document
TopK(f) == Embedded(f)

\* lexical fallback: keyword match over the content of the document's chunks
Lexical(f) == {x.chunk_id : x \in {y \in chunks : y.file_id = f}}

\* a retriever that only ever searches the vectors
RetrieveVectorsOnly(f) == TopK(f)

\* the chunks retrieved for a question: by similarity among the embedded
\* chunks, by the lexical fallback when the document has none
Retrieve(f) == IF Embedded(f) # {} THEN TopK(f) ELSE Lexical(f)

\* the answer to an ask handled while document a is active
AskAnswerStale(a, genOk, retry) ==
  Resp("ask", retry, TRUE, "", next_file_id - 1, 0)

AskAnswer(a, genOk, retry) ==
  IF a = 0 THEN Resp("ask", retry, FALSE, "No file uploaded", 0, 0)
  ELSE IF Retrieve(a) = {}
         THEN Resp("ask", retry, FALSE, "No relevant content", 0, 0)
  ELSE IF genOk THEN Resp("ask", retry, TRUE, "", a, 0)
  ELSE Resp("ask", retry, FALSE, "Generation failed", 0, 0)

\* ask: does not change the session
ServerAsk ==
  /\ \E m \in BagToSet(reqs), genOk \in BOOLEAN :
       /\ m.kind = "ask"
       /\ reqs' = Take(reqs, m)
       /\ resps' = Put(resps, AskAnswer(active_file_id, genOk, m.retry))
  /\ UNCHANGED <<storageVars, serverVars, appVars, askVars, histVars>>

\* a suggest-questions response: the questions generated for document
\* file or (file 0) the static fallback list when ok; otherwise an error
\* body of a 200 response (success: false) or, thrown, of an error status
SuggestResp(retry, ok, thrown, err, file) ==
  [kind |-> "suggest", retry |-> retry, ok |-> ok, err |-> err,
   file |-> file, sum |-> 0, thrown |-> thrown]

\* the "error" field of a failing suggest-questions response
SuggestErrors(a) == IF a = 0 THEN {"No file uploaded", ""} ELSE {""}

\* suggest_questions: questions for the active document, the static fallback
\* list, or (a server or transport that fails all the same) an error
ServerSuggest ==
  /\ \E m \in BagToSet(reqs) :
       /\ m.kind = "suggest"
       /\ reqs' = Take(reqs, m)
       /\ \/ /\ active_file_id # 0
             /\ resps' = Put(resps, SuggestResp(m.retry, TRUE, FALSE, "",
                                                active_file_id))
          \/ resps' = Put(resps, SuggestResp(m.retry, TRUE, FALSE, "", 0))
          \/ \E thrown \in BOOLEAN, err \in SuggestErrors(active_file_id) :
               resps' = Put(resps, SuggestResp(m.retry, FALSE, thrown, err, 0))
  /\ UNCHANGED <<storageVars, serverVars, appVars, askVars, histVars>>

\* the summary cached for the removed document stays
SummaryAfterRemoveKept(s) == s

SummaryAfterRemove(s) == 0

\* remove: any state -> Empty
ServerRemove ==
  /\ \E m \in BagToSet(reqs) :
       /\ m.kind = "remove"
       /\ reqs' = Take(reqs, m)
       /\ resps' = Put(resps, Resp("remove", 0, TRUE, "", 0, 0))
  /\ documents' = DocumentsAfterDelete(documents, active_file_id)
  /\ chunks' = ChunksAfterDelete(chunks, active_file_id)
  /\ embeddings' = EmbeddingsAfterDelete(embeddings, chunks')
  /\ active_file_id' = 0
  /\ cached_summary' = SummaryAfterRemove(cached_summary)
  /\ srvLast' = Did("remove", SessionState, active_file_id,
                    Rows - Cardinality(chunks') - Cardinality(embeddings')
                    - Cardinality(documents'))
  /\ UNCHANGED <<next_file_id, embVars, appVars, askVars, ingestClean,
                 ingestAck, lastInput>>

(* ------------------- client: App (QuickReadWizard.jsx) ---------------- *)

\* the message is the response's "error" field as it came
ErrorMessageRaw(kind, err) == err

\* apiService: throw new Error(error.error || 'Upload failed') in uploadFile,
\* throw new Error(error.error || 'Request failed') in request
ErrorMessage(kind, err) ==
  IF err # "" THEN err
  ELSE IF kind = "upload" THEN "Upload failed" ELSE "Request failed"

NoAnswer == [kind |-> "none", file |-> 0, msg |-> ""]

\* AskQuestions useEffect on [fileInfo, ...]: when fileInfo has become null
\* the question, the answer and isAsking are reset (part_002:87-92)
EffectQuestion(newFileInfo, q) ==
  IF newFileInfo # fileInfo /\ newFileInfo = 0 THEN "" ELSE q

EffectAnswer(newFileInfo, a) ==
  IF newFileInfo # fileInfo /\ newFileInfo = 0 THEN NoAnswer ELSE a

EffectIsAsking(newFileInfo, b) ==
  IF newFileInfo # fileInfo /\ newFileInfo = 0 THEN FALSE ELSE b

\* useState([]) of suggestedQuestions; the lists it can hold
NoQuestions == [list |-> "empty", file |-> 0]

\* defaultQuestions: the four fixed questions
DefaultQuestions == [list |-> "default", file |-> 0]

\* the rest of the AskQuestions effect, run when a dependency (fileInfo,
\* questionsGenerated, isLoadingQuestions) has changed: with fileInfo null
\* the suggestions are reset, otherwise the 500 ms timer is cleared and
\* armed again if no questions were generated and none are loading
SqEffect(changed, fi, sq, gen, load) ==
  /\ suggestedQuestions' = IF changed /\ fi = 0 THEN NoQuestions ELSE sq
  /\ questionsGenerated' = IF changed /\ fi = 0 THEN FALSE ELSE gen
  /\ isLoadingQuestions' = load
  /\ effectTimer' = IF changed
                    THEN fi # 0 /\ ~questionsGenerated' /\ ~load
                    ELSE effectTimer

\* setFileInfo was called with fi: fileInfo is another object unless it was
\* null and is null
FileInfoSet(fi) ==
  /\ SqEffect(fi # 0 \/ fileInfo # 0, fi, suggestedQuestions,
              questionsGenerated, isLoadingQuestions)
  /\ sqSent' = IF fi # 0 \/ fileInfo # 0 THEN 0 ELSE sqSent
  /\ UNCHANGED <<sqDelaying, sqRetryTimers>>

\* loadStatus: the response of the initial get-status request
LoadStatusDone ==
  /\ \E m \in BagToSet(resps) :
       /\ m.kind = "status"
       /\ resps' = Take(resps, m)
       /\ fileInfo' = m.file
       /\ summary' = m.sum
       /\ question' = EffectQuestion(m.file, question)
       /\ answer' = EffectAnswer(m.file, answer)
       /\ isAsking' = EffectIsAsking(m.file, isAsking)
       /\ FileInfoSet(m.file)
  /\ UNCHANGED <<storageVars, serverVars, reqs, isUploadingFile,
                 isSummarizing, isAskingQuestion, error, askRetryTimers,
                 histVars>>

\* the upload controls: rendered only when !fileInfo, disabled by isLoading
\* a handler without its finally block leaves its loading flag as it is
FinallyMissing(flag) == flag

\* finally { setIsUploadingFile(false) } and its like: the loading flag of
\* a handler once its request has settled
Finally(flag) == FALSE

CanIngest ==
  /\ fileInfo = 0
  /\ ~isUploadingFile
  /\ InFlight < MaxInFlight
  /\ next_file_id \in FileIds

StartIngest(kind, arg) ==
  /\ isUploadingFile' = TRUE
  /\ error' = ""
  /\ reqs' = Put(reqs, ReqWith(kind, 0, arg))
  /\ ingestAck' = 0
  /\ ingestClean' = ~RemoveOutstanding
  /\ UNCHANGED <<storageVars, serverVars, resps, fileInfo, summary,
                 isSummarizing, isAskingQuestion, askVars, srvLast>>

\* what the browser reports as file.type: a PDF, a text file, unknown
FileTypes == {"application/pdf", "text/plain", ""}

\* what the URL field can hold: nothing, blanks, a URL
Urls == {"", " ", "u"}

\* String.prototype.trim
Trim(str) == IF str = " " THEN "" ELSE str

\* every dropped or chosen file is uploaded
ValidFileAny(type) == TRUE

\* if (file.type !== 'application/pdf') { alert(...); return; }
ValidFile(type) == type = "application/pdf"

\* the URL is submitted unless it is the empty string
ValidUrlUntrimmed(url) == url # ""

\* if (!url.trim()) return;
ValidUrl(url) == Trim(url) # ""

NoInput == [input |-> "none", sent |-> FALSE]

Input(traced, str, sent) ==
  IF traced THEN [input |-> str, sent |-> sent] ELSE lastInput

\* DocumentInput.handleFileUpload -> App.handleFileUpload, up to the await
FileUpload(traced) ==
  /\ CanIngest
  /\ \E type \in FileTypes :
       /\ lastInput' = Input(traced, type, ValidFile(type))
       /\ IF ~ValidFile(type)
          THEN UNCHANGED <<storageVars, serverVars, netVars, appVars, askVars,
                           srvLast, ingestClean, ingestAck>>
          ELSE StartIngest("upload", type)

\* DocumentInput.handleUrlSubmit -> App.handleUrlAnalysis, up to the await
UrlAnalysis(traced) ==
  /\ CanIngest
  /\ \E url \in Urls :
       /\ lastInput' = Input(traced, url, ValidUrl(url))
       /\ IF ~ValidUrl(url)
          THEN UNCHANGED <<storageVars, serverVars, netVars, appVars, askVars,
                           srvLast, ingestClean, ingestAck>>
          ELSE StartIngest("analyzeUrl", url)

HandleFileUpload == FileUpload(FALSE)

HandleUrlAnalysis == UrlAnalysis(FALSE)

\* the same handlers, with the input recorded in lastInput
TracedFileUpload == FileUpload(TRUE)

TracedUrlAnalysis == UrlAnalysis(TRUE)

\* setFileInfo(response.file_info)
IngestShown(m) == m.file

\* handleFileUpload / handleUrlAnalysis after the await
IngestDone ==
  /\ \E m \in BagToSet(resps) :
       /\ m.kind \in IngestKinds
       /\ resps' = Take(resps, m)
       /\ IF m.ok
          THEN /\ fileInfo' = IngestShown(m)
               /\ summary' = 0
               /\ ingestAck' = IF ingestClean THEN m.file ELSE 0
               /\ FileInfoSet(fileInfo')
               /\ UNCHANGED error
          ELSE /\ error' = ErrorMessage(m.kind, m.err)
               /\ ingestAck' = 0
               /\ UNCHANGED <<fileInfo, summary, sqVars>>
       /\ question' = EffectQuestion(fileInfo', question)
       /\ answer' = EffectAnswer(fileInfo', answer)
       /\ isAsking' = EffectIsAsking(fileInfo', isAsking)
  /\ isUploadingFile' = Finally(isUploadingFile)
  /\ ingestClean' = FALSE
  /\ UNCHANGED <<storageVars, serverVars, reqs, isSummarizing,
                 isAskingQuestion, askRetryTimers, srvLast, lastInput>>

\* Summary: "Generate Summary" (fileInfo, no summary) or the regenerate
\* button of the header (any summary); handleSummarize up to the await
HandleSummarize ==
  /\ fileInfo # 0 \/ summary # 0
  /\ ~isSummarizing
  /\ InFlight < MaxInFlight
  /\ isSummarizing' = TRUE
  /\ error' = ""
  /\ reqs' = Put(reqs, Req("summarize", 0))
  /\ UNCHANGED <<storageVars, serverVars, resps, fileInfo, summary,
                 isUploadingFile, isAskingQuestion, askVars, histVars>>

\* a failed summarize keeps the summary that was shown
SummaryAfterFailureKept(old) == old

\* catch: setSummary('')
SummaryAfterFailure(old) == 0

\* the summarize response is dropped unless it is of the document shown
SummaryShownGuarded(old, m) == IF m.sum = fileInfo THEN m.sum ELSE old

\* the summary on screen is not replaced by the response
SummaryShownKept(old, m) == old

\* setSummary(response.summary)
SummaryShown(old, m) == m.sum

\* handleSummarize after the await
SummarizeDone ==
  /\ \E m \in BagToSet(resps) :
       /\ m.kind = "summarize"
       /\ resps' = Take(resps, m)
       /\ IF m.ok
          THEN /\ summary' = SummaryShown(summary, m)
               /\ UNCHANGED error
          ELSE /\ error' = ErrorMessage(m.kind, m.err)
               /\ summary' = SummaryAfterFailure(summary)
  /\ isSummarizing' = Finally(isSummarizing)
  /\ UNCHANGED <<storageVars, serverVars, reqs, fileInfo, isUploadingFile,
                 isAskingQuestion, askVars, histVars>>

\* handleClearSummary (the X of the Summary header)
HandleClearSummary ==
  /\ summary # 0
  /\ ~isSummarizing
  /\ summary' = 0
  /\ UNCHANGED <<storageVars, serverVars, netVars, fileInfo, isUploadingFile,
                 isSummarizing, isAskingQuestion, error, askVars, histVars>>

\* FileStatus: rendered when fileInfo; App passes no isRemoving, so the
\* button is never disabled; handleRemoveFile up to the await
HandleRemoveFile ==
  /\ fileInfo # 0
  /\ InFlight < MaxInFlight
  /\ reqs' = Put(reqs, Req("remove", 0))
  /\ ingestAck' = 0
  /\ ingestClean' = FALSE
  /\ UNCHANGED <<storageVars, serverVars, resps, appVars, askVars, srvLast,
                 lastInput>>

\* a successful remove leaves the summary on screen
SummaryAfterRemovedKept(old) == old

\* setSummary('') of handleRemoveFile
SummaryAfterRemoved(old) == 0

\* handleRemoveFile after the await
RemoveDone ==
  /\ \E m \in BagToSet(resps) :
       /\ m.kind = "remove"
       /\ resps' = Take(resps, m)
       /\ IF m.ok
          THEN /\ fileInfo' = 0
               /\ summary' = SummaryAfterRemoved(summary)
               /\ FileInfoSet(0)
               /\ UNCHANGED error
          ELSE /\ error' = ErrorMessage(m.kind, m.err)
               /\ UNCHANGED <<fileInfo, summary, sqVars>>
       /\ question' = EffectQuestion(fileInfo', question)
       /\ answer' = EffectAnswer(fileInfo', answer)
       /\ isAsking' = EffectIsAsking(fileInfo', isAsking)
  /\ UNCHANGED <<storageVars, serverVars, reqs, isUploadingFile,
                 isSummarizing, isAskingQuestion, askRetryTimers, histVars>>

\* handleClearError (the X of ErrorMessage)
HandleClearError ==
  /\ error # ""
  /\ error' = ""
  /\ UNCHANGED <<storageVars, serverVars, netVars, fileInfo, summary,
                 isUploadingFile, isSummarizing, isAskingQuestion, askVars,
                 histVars>>

(* ---------------------- client: AskQuestions -------------------------- *)

\* the textarea: disabled = !fileInfo || isAsking || isLoading
TypeQuestion ==
  /\ fileInfo # 0 /\ ~isAsking /\ ~isUploadingFile
  /\ question' = IF question = "" THEN "q" ELSE ""
  /\ UNCHANGED <<storageVars, serverVars, netVars, appVars, answer, isAsking,
                 askRetryTimers, histVars>>
  /\ UNCHANGED sqVars

\* handleSubmit -> App.handleAskQuestion, up to the await
SendAsk(retry) ==
  /\ isAsking' = TRUE
  /\ isAskingQuestion' = TRUE
  /\ reqs' = Put(reqs, Req("ask", retry))

\* the Ask Question button / Enter: handleSubmit()
HandleSubmit ==
  /\ question # "" /\ fileInfo # 0 /\ ~isAsking /\ ~isUploadingFile
  /\ InFlight < MaxInFlight
  /\ SendAsk(0)
  /\ UNCHANGED <<storageVars, serverVars, resps, fileInfo, summary,
                 isUploadingFile, isSummarizing, error, question, answer,
                 askRetryTimers, histVars>>
  /\ UNCHANGED sqVars

\* a suggested question is clicked (the buttons are rendered when fileInfo
\* and not isLoadingQuestions, disabled = !fileInfo || isAsking ||
\* isLoading): handleSuggestedQuestion(q)
HandleSuggestedQuestion ==
  /\ fileInfo # 0 /\ ~isAsking /\ ~isUploadingFile
  /\ ~isLoadingQuestions /\ suggestedQuestions # NoQuestions
  /\ InFlight < MaxInFlight
  /\ question' = "q"
  /\ SendAsk(0)
  /\ UNCHANGED <<storageVars, serverVars, resps, fileInfo, summary,
                 isUploadingFile, isSummarizing, error, answer,
                 askRetryTimers, histVars>>
  /\ UNCHANGED sqVars

\* a failed ask is reported in App's error, as the other handlers do
AskErrorSet(old, ok, msg) == IF ok THEN old ELSE msg

\* handleAskQuestion: catch (error) { throw error; } leaves App's error
AskError(old, ok, msg) == old

\* a retry whatever the attempt
ShouldRetryAgain(msg, retryAttempt) == msg = "No file uploaded"

\* error.message?.includes("No file uploaded") && retryAttempt < 1
ShouldRetry(msg, retryAttempt) ==
  msg = "No file uploaded" /\ retryAttempt < 1

\* handleSubmit / handleSuggestedQuestion after the await (and the finally
\* of handleAskQuestion)
AskDone ==
  /\ \E m \in BagToSet(resps) :
       /\ m.kind = "ask"
       /\ resps' = Take(resps, m)
       /\ IF m.ok
          THEN /\ answer' = [kind |-> "answer", file |-> m.file, msg |-> ""]
               /\ UNCHANGED askRetryTimers
          ELSE IF ShouldRetry(ErrorMessage(m.kind, m.err), m.retry)
          THEN /\ askRetryTimers' = askRetryTimers + 1
               /\ UNCHANGED answer
          ELSE /\ answer' = [kind |-> "error", file |-> 0,
                             msg |-> ErrorMessage(m.kind, m.err)]
               /\ UNCHANGED askRetryTimers
       /\ error' = AskError(error, m.ok, ErrorMessage(m.kind, m.err))
  /\ isAsking' = FALSE
  /\ isAskingQuestion' = Finally(isAskingQuestion)
  /\ UNCHANGED <<storageVars, serverVars, reqs, fileInfo, summary,
                 isUploadingFile, isSummarizing, question, histVars>>
  /\ UNCHANGED sqVars

\* the 1 s retry timer fires: handleSubmit(1) of the render that sent the
\* question, in which question was set, fileInfo non-null, isAsking false
AskRetryFires ==
  /\ askRetryTimers > 0
  /\ askRetryTimers' = askRetryTimers - 1
  /\ SendAsk(1)
  /\ UNCHANGED <<storageVars, serverVars, resps, fileInfo, summary,
                 isUploadingFile, isSummarizing, error, question, answer,
                 histVars>>
  /\ UNCHANGED sqVars

(* --------------- client: AskQuestions, suggested questions ------------- *)

\* an effect run caused by questionsGenerated or isLoadingQuestions: with
\* fileInfo null it also resets question, answer and isAsking
FlagsEffect(changed, sq, gen, load) ==
  /\ SqEffect(changed, fileInfo, sq, gen, load)
  /\ question' = IF changed /\ fileInfo = 0 THEN "" ELSE question
  /\ answer' = IF changed /\ fileInfo = 0 THEN NoAnswer ELSE answer
  /\ isAsking' = IF changed /\ fileInfo = 0 THEN FALSE ELSE isAsking

\* generateSuggestedQuestions from setIsLoadingQuestions(true) to the await
\* of the request
SendSuggest(retry) ==
  /\ reqs' = Put(reqs, Req("suggest", retry))
  /\ sqSent' = IF sqSent < MaxSent THEN sqSent + 1 ELSE sqSent
  /\ FlagsEffect(~isLoadingQuestions, suggestedQuestions, questionsGenerated,
                 TRUE)

\* the 500 ms timer of the effect fires: generateSuggestedQuestions() of the
\* render that armed it (fileInfo set, nothing loading) starts its delay
EffectTimerFires ==
  /\ effectTimer
  /\ InFlight < MaxInFlight
  /\ effectTimer' = FALSE
  /\ sqDelaying' = sqDelaying + 1
  /\ UNCHANGED <<storageVars, serverVars, netVars, appVars, question, answer,
                 isAsking, askRetryTimers, suggestedQuestions,
                 isLoadingQuestions, questionsGenerated, sqRetryTimers,
                 sqSent, histVars>>

\* the 1 s delay of attempt 0 is over
DelayDone ==
  /\ sqDelaying > 0
  /\ sqDelaying' = sqDelaying - 1
  /\ SendSuggest(0)
  /\ UNCHANGED <<storageVars, serverVars, resps, appVars, askRetryTimers,
                 sqRetryTimers, histVars>>

\* the list a successful response carries
QuestionsOf(m) ==
  IF m.file = 0 THEN [list |-> "fallback", file |-> 0]
  ELSE [list |-> "generated", file |-> m.file]

\* the message the handler looks at: data.error, or error.message if thrown
SuggestMessage(m) ==
  IF m.thrown THEN ErrorMessage(m.kind, m.err) ELSE m.err

\* a last failure leaves the list as it is
QuestionsAfterFailureKept(old) == old

\* Fallback to default questions
QuestionsAfterFailure(old) == DefaultQuestions

\* generateSuggestedQuestions after the await
SuggestDone ==
  /\ \E m \in BagToSet(resps) :
       /\ m.kind = "suggest"
       /\ resps' = Take(resps, m)
       /\ IF m.ok
          THEN /\ FlagsEffect(~questionsGenerated \/ isLoadingQuestions,
                              QuestionsOf(m), TRUE, FALSE)
               /\ UNCHANGED sqRetryTimers
          ELSE IF SuggestMessage(m) = "No file uploaded" /\ m.retry < 2
          THEN /\ sqRetryTimers' = Put(sqRetryTimers, m.retry + 1)
               /\ FlagsEffect(isLoadingQuestions, suggestedQuestions,
                              questionsGenerated, FALSE)
          ELSE /\ FlagsEffect(~questionsGenerated \/ isLoadingQuestions,
                              QuestionsAfterFailure(suggestedQuestions),
                              TRUE, FALSE)
               /\ UNCHANGED sqRetryTimers
  /\ UNCHANGED <<storageVars, serverVars, reqs, appVars, askRetryTimers,
                 sqDelaying, sqSent, histVars>>

\* a retry timer (2 s, 4 s) fires: generateSuggestedQuestions(n) of the
\* render that started the generation, without delay
SqRetryFires ==
  /\ \E n \in BagToSet(sqRetryTimers) :
       /\ sqRetryTimers' = Take(sqRetryTimers, n)
       /\ SendSuggest(n)
  /\ UNCHANGED <<storageVars, serverVars, resps, appVars, askRetryTimers,
                 sqDelaying, histVars>>

\* refreshQuestions (the button is rendered when fileInfo, disabled while
\* loading): the list is cleared and generateSuggestedQuestions() called
RefreshQuestions ==
  /\ fileInfo # 0 /\ ~isLoadingQuestions
  /\ InFlight < MaxInFlight
  /\ sqDelaying' = sqDelaying + 1
  /\ sqSent' = 0
  /\ FlagsEffect(questionsGenerated, NoQuestions, FALSE, FALSE)
  /\ UNCHANGED <<storageVars, serverVars, netVars, appVars, askRetryTimers,
                 sqRetryTimers, histVars>>

\* clearAnswer (the X of the answer box)
ClearAnswer ==
  /\ answer # NoAnswer
  /\ answer' = NoAnswer
  /\ UNCHANGED <<storageVars, serverVars, netVars, appVars, question,
                 isAsking, askRetryTimers, histVars>>
  /\ UNCHANGED sqVars

(* --------------------------- specifications --------------------------- *)

\* the documents a session can hold when the page is loaded
StoredDocument(n, k, s) ==
  /\ documents = {[file_id |-> 1, source_type |-> "pdf"]}
  /\ chunks = NewChunks(1, n, FreshBase(1))
  /\ embeddings = {[chunk_id |-> c, embedding |-> "v1"] : c \in 1..k}
  /\ active_file_id = 1
  /\ cached_summary = s
  /\ next_file_id = 2
  /\ embCall = NoCall /\ embLast = NoReport

NothingStored ==
  /\ documents = {} /\ chunks = {} /\ embeddings = {}
  /\ active_file_id = 0
  /\ cached_summary = 0
  /\ next_file_id = 1
  /\ embCall = NoCall /\ embLast = NoReport

\* App is mounted: its state is the useState defaults and the get-status
\* request of the loadStatus effect is on its way
Init ==
  /\ \/ NothingStored
     \/ \E n \in 1..MaxChunks, k \in 0..MaxChunks, s \in {0, 1} :
          k <= n /\ StoredDocument(n, k, s)
  /\ reqs = SetToBag({Req("status", 0)})
  /\ resps = EmptyBag
  /\ fileInfo = 0 /\ summary = 0
  /\ isUploadingFile = FALSE /\ isSummarizing = FALSE
  /\ isAskingQuestion = FALSE /\ error = ""
  /\ question = "" /\ answer = NoAnswer /\ isAsking = FALSE
  /\ askRetryTimers = 0
  /\ suggestedQuestions = NoQuestions
  /\ isLoadingQuestions = FALSE /\ questionsGenerated = FALSE
  /\ effectTimer = FALSE /\ sqDelaying = 0 /\ sqRetryTimers = EmptyBag
  /\ sqSent = 0
  /\ srvLast = Did("none", "Empty", 0, 0)
  /\ ingestAck = 0 /\ ingestClean = FALSE
  /\ lastInput = NoInput

\* the session: server, App and the question and answer of AskQuestions
Next ==
  \/ ServerStatus \/ ServerIngest \/ ServerIngestFails \/ ServerEmbed
  \/ ServerSummarize \/ ServerAsk \/ ServerRemove
  \/ LoadStatusDone \/ HandleFileUpload \/ HandleUrlAnalysis \/ IngestDone
  \/ HandleSummarize \/ SummarizeDone \/ HandleClearSummary
  \/ HandleRemoveFile \/ RemoveDone \/ HandleClearError
  \/ TypeQuestion \/ HandleSubmit \/ AskDone \/ AskRetryFires \/ ClearAnswer

Spec == Init /\ [][Next]_vars

\* the server answers every request it has received (its calls to the
\* external models are bounded by timeouts), fetch settles with the response,
\* and the event loop runs every settled promise and every armed timer;
\* what the user does next is left open
Fairness ==
  /\ WF_vars(ServerStatus)
  /\ WF_vars(ServerIngest \/ ServerIngestFails)
  /\ WF_vars(ServerSummarize)
  /\ WF_vars(ServerAsk)
  /\ WF_vars(ServerRemove)
  /\ WF_vars(LoadStatusDone)
  /\ WF_vars(IngestDone)
  /\ WF_vars(SummarizeDone)
  /\ WF_vars(AskDone)
  /\ WF_vars(RemoveDone)
  /\ WF_vars(AskRetryFires)

\* the operations that wait for the server, and what completes them
LiveNext ==
  \/ ServerStatus \/ ServerIngest \/ ServerIngestFails
  \/ ServerSummarize \/ ServerAsk \/ ServerRemove
  \/ LoadStatusDone \/ HandleFileUpload \/ HandleUrlAnalysis \/ IngestDone
  \/ HandleSummarize \/ SummarizeDone
  \/ HandleRemoveFile \/ RemoveDone
  \/ TypeQuestion \/ HandleSubmit \/ AskDone \/ AskRetryFires

SpecLive == Init /\ [][LiveNext]_vars /\ Fairness

\* the document lifecycle: ingest, summarize and remove. The ask path reads
\* the session and writes only isAskingQuestion and the state of
\* AskQuestions, which no action below reads.
LifecycleNext ==
  \/ ServerStatus \/ ServerIngest \/ ServerIngestFails \/ ServerEmbed
  \/ ServerSummarize \/ ServerRemove
  \/ LoadStatusDone \/ HandleFileUpload \/ HandleUrlAnalysis \/ IngestDone
  \/ HandleSummarize \/ SummarizeDone \/ HandleClearSummary
  \/ HandleRemoveFile \/ RemoveDone \/ HandleClearError

SpecLifecycle == Init /\ [][LifecycleNext]_vars

\* ingest, remove and ask. Summarize writes only the two summaries and
\* error, which no action below reads.
AskNext ==
  \/ ServerStatus \/ ServerIngest \/ ServerIngestFails \/ ServerEmbed
  \/ ServerAsk \/ ServerRemove
  \/ LoadStatusDone \/ HandleFileUpload \/ HandleUrlAnalysis \/ IngestDone
  \/ HandleRemoveFile \/ RemoveDone
  \/ TypeQuestion \/ HandleSubmit \/ AskDone \/ AskRetryFires \/ ClearAnswer

SpecAsk == Init /\ [][AskNext]_vars

\* the suggested questions of AskQuestions, with ingest and remove
SuggestNext ==
  \/ ServerStatus \/ ServerIngest \/ ServerRemove \/ ServerSuggest
  \/ LoadStatusDone \/ HandleFileUpload \/ IngestDone
  \/ HandleRemoveFile \/ RemoveDone
  \/ EffectTimerFires \/ DelayDone \/ SuggestDone \/ SqRetryFires
  \/ RefreshQuestions

SpecSuggest == Init /\ [][SuggestNext]_vars

\* the questions asked, typed or suggested, of a document that is loaded
\* with the page and can be removed
QuestionsNext ==
  \/ ServerStatus \/ ServerRemove \/ ServerSuggest \/ ServerAsk
  \/ LoadStatusDone \/ HandleRemoveFile \/ RemoveDone
  \/ EffectTimerFires \/ DelayDone \/ SuggestDone
  \/ TypeQuestion \/ HandleSubmit \/ HandleSuggestedQuestion
  \/ AskDone \/ AskRetryFires

SpecQuestions == Init /\ [][QuestionsNext]_vars

\* the suggested questions when the user never refreshes them
SuggestAutoNext ==
  \/ ServerStatus \/ ServerIngest \/ ServerRemove \/ ServerSuggest
  \/ LoadStatusDone \/ HandleFileUpload \/ IngestDone
  \/ HandleRemoveFile \/ RemoveDone
  \/ EffectTimerFires \/ DelayDone \/ SuggestDone \/ SqRetryFires

SpecSuggestAuto == Init /\ [][SuggestAutoNext]_vars

\* DocumentInput and FileStatus alone: ingest and remove, with the inputs
\* given to DocumentInput recorded
InputNext ==
  \/ ServerStatus \/ ServerIngest \/ ServerIngestFails \/ ServerRemove
  \/ LoadStatusDone \/ TracedFileUpload \/ TracedUrlAnalysis \/ IngestDone
  \/ HandleRemoveFile \/ RemoveDone

SpecInput == Init /\ [][InputNext]_vars

\* the storage transaction of ingest, for a document of its own
SqlStoreDocument ==
  /\ \E f \in FileIds, n \in 1..MaxChunks :
       /\ StoreDocument(f, "pdf", n, 0, documents, chunks)
       /\ srvLast' = Did("ingest", "Empty", f, 0)
  /\ UNCHANGED <<embeddings, serverVars, netVars, appVars, askVars, ingestClean, ingestAck, lastInput>>

\* chunks and embeddings change between two ensure_embedded calls
StorageChanges ==
  /\ embCall.state = "idle"
  /\ SqlStoreDocument \/ SqlDeleteChunk \/ SqlDeleteEmbedding

\* the Embedding Coordinator on the storage
EmbedNext == EnsureStart \/ EnsureBatch \/ EnsureEnd \/ StorageChanges

SpecEmbed == Init /\ [][EmbedNext]_vars

\* the storage alone, under every statement the schema accepts
SchemaNext ==
  \/ SqlInsertDocument \/ SqlInsertChunk \/ SqlInsertEmbedding
  \/ SqlDeleteDocument \/ SqlDeleteChunk \/ SqlDeleteEmbedding
  \/ SqlStoreDocument

SpecSchema == Init /\ [][SchemaNext]_vars

(* ------------------------------ claims -------------------------------- *)

ChunksOf(f) == {x \in chunks : x.file_id = f}

\* the document an embedding row belongs to (-1: to no stored chunk)
FileOfChunk(c) ==
  IF \E x \in chunks : x.chunk_id = c
  THEN (CHOOSE x \in chunks : x.chunk_id = c).file_id
  ELSE -1

\* the documents that have a document, chunk or embedding row in storage
StoredFileIds ==
  DocIds(documents) \cup {x.file_id : x \in chunks}
    \cup {FileOfChunk(e.chunk_id) : e \in embeddings}

MutatingKinds == IngestKinds \cup {"remove"}

\* no ingest or remove call is between its request and its response
NoMutatingCallOutstanding ==
  \A m \in BagToSet(reqs) \cup BagToSet(resps) : m.kind \notin MutatingKinds

\* C1: whatever ingests and removes the session has seen, every document,
\* chunk and embedding row in storage belongs to the one active document;
\* after ingest(A), ingest(B) these are B's rows and none of A's.
C1_OneDocumentPerSession ==
  /\ StoredFileIds \subseteq ({active_file_id} \ {0})
  /\ Cardinality(documents) <= 1

\* ingest(B) has replaced a document that had chunk and embedding rows, and
\* B has embedding rows of its own
C1_Replaced ==
  /\ srvLast.op = "ingest" /\ srvLast.from # "Empty" /\ srvLast.rows >= 3
  /\ embeddings # {}

C5_ServerEmptyAfterRemove ==
  srvLast.op = "remove" =>
     /\ SessionState = "Empty"
     /\ StoredFileIds = {}
     /\ cached_summary = 0

C5_ClientClearedByRemove ==
  \A m \in BagToSet(resps) :
     (m.kind = "remove" /\ m.ok /\ resps' = Take(resps, m)) =>
        (fileInfo' = 0 /\ summary' = 0)

C5_RemoveEndsEmpty ==
  [](C5_ServerEmptyAfterRemove) /\ [][C5_ClientClearedByRemove]_vars

\* a Summarized session was removed and the client has the response
C5_RemovedSummarized ==
  /\ srvLast.op = "remove" /\ srvLast.from = "Summarized"
  /\ srvLast.rows >= 3
  /\ NoMutatingCallOutstanding
  /\ fileInfo = 0 /\ summary = 0

\* C3: a summarize or ask that was in flight when its document was removed
\* or replaced never has its result stored or displayed: in no state the
\* client shows a summary or an answer made from a document that storage no
\* longer holds while it shows no document or another document.
C3_NoStaleResult ==
  /\ (summary # 0 /\ summary \notin DocIds(documents)) => fileInfo = summary
  /\ (answer.kind = "answer" /\ answer.file \notin DocIds(documents))
        => fileInfo = answer.file

\* C4: an ask that the server handles after a remove and before the next
\* successful ingest is answered with "No file uploaded" (NoActiveDocument),
\* whichever handleSubmit sent it, the retry timer's included.
C4_AskAfterRemove ==
  \A m \in BagToSet(reqs) :
     (m.kind = "ask" /\ reqs' = Take(reqs, m) /\ srvLast.op = "remove") =>
        resps' = Put(resps, Resp("ask", m.retry, FALSE, "No file uploaded",
                                 0, 0))

C4_AskAfterRemoveFails == [][C4_AskAfterRemove]_vars

\* the ask of a retry timer was answered after the remove which the client
\* has already been told of
C4_RetryAnsweredAfterRemove ==
  /\ srvLast.op = "remove"
  /\ fileInfo = 0
  /\ \E m \in BagToSet(resps) :
       m.kind = "ask" /\ m.retry = 1 /\ m.err = "No file uploaded"

\* C6: after an ingest, from Empty or from a session with a document, the
\* session is Loaded with the new document active, and storage holds this
\* document, its chunks and their embeddings and nothing of the document
\* that was there before.
C6_IngestReplaces ==
  srvLast.op = "ingest" =>
     /\ SessionState = "Loaded"
     /\ active_file_id = srvLast.id
     /\ DocIds(documents) = {srvLast.id}
     /\ ChunksOf(srvLast.id) # {}
     /\ \A x \in chunks : x.file_id = srvLast.id
     /\ \A e \in embeddings :
          \E x \in ChunksOf(srvLast.id) : x.chunk_id = e.chunk_id

\* an ingest into a Loaded session deleted the old document with chunks and
\* embeddings, and the client shows the new document
C6_ReplacedLoaded ==
  /\ srvLast.op = "ingest" /\ srvLast.from = "Loaded" /\ srvLast.rows >= 3
  /\ fileInfo = srvLast.id

\* C7: a cached summary is of the active document, and while no ingest or
\* remove call is outstanding a summary the client shows is a summary of
\* the session's active document, which is the document the client shows.
C7_SummaryOfActiveDocument ==
  /\ cached_summary # 0 => cached_summary = active_file_id
  /\ (summary # 0 /\ NoMutatingCallOutstanding) =>
        (summary = active_file_id /\ summary = fileInfo)

\* C8: every chunk's file_id names a stored document and every embedding's
\* chunk_id names a stored chunk, under every statement the schema accepts.
C8_NoOrphans ==
  /\ \A x \in chunks : x.file_id \in DocIds(documents)
  /\ \A e \in embeddings : \E x \in chunks : x.chunk_id = e.chunk_id

\* a DELETE of a document row took chunk and embedding rows with it
C8_CascadeDeleted ==
  /\ srvLast.op = "delete document" /\ srvLast.rows >= 2
  /\ embeddings # {}

IndexesOf(f) == {x.chunk_index : x \in ChunksOf(f)}

\* C9 as stated: in every storage state the schema admits, the chunk_index
\* values of every document with chunks are pairwise distinct and exactly
\* 0 .. n-1.
C9_AlwaysContiguous ==
  \A f \in DocIds(documents) :
     /\ Cardinality(IndexesOf(f)) = Cardinality(ChunksOf(f))
     /\ IndexesOf(f) = 0..(Cardinality(ChunksOf(f)) - 1)

\* C9, amended: the schema keeps (file_id, chunk_index) unique in every
\* state; the chunk_index values of a document are exactly 0 .. n-1, n >= 1,
\* when ingest has stored it and no other statement has run since.
C9_UniqueAndContiguousAfterIngest ==
  /\ \A x, y \in chunks :
       (x.file_id = y.file_id /\ x.chunk_index = y.chunk_index) => x = y
  /\ srvLast.op = "ingest" =>
       /\ ChunksOf(srvLast.id) # {}
       /\ IndexesOf(srvLast.id) = 0..(Cardinality(ChunksOf(srvLast.id)) - 1)

\* ingest has stored a document of two or more chunks next to another
\* document
C9_IngestedSeveralChunks ==
  /\ srvLast.op = "ingest"
  /\ Cardinality(ChunksOf(srvLast.id)) >= 2
  /\ \E d \in documents : d.file_id # srvLast.id

EmbeddingsOf(c) == {e \in embeddings : e.chunk_id = c}

\* C10: a chunk has no or one embedding row, so the embedding_coverage view
\* counts every chunk once and never more embedded chunks than chunks.
C10_AtMostOneEmbedding ==
  /\ \A x \in chunks : Cardinality(EmbeddingsOf(x.chunk_id)) <= 1
  /\ \A f \in DocIds(documents) :
       /\ total_chunks(f) = Cardinality(ChunksOf(f))
       /\ embedded_chunks(f) <= Cardinality(ChunksOf(f))

\* an INSERT has embedded one chunk of a document and another chunk of it
\* has no embedding
C10_PartlyEmbedded ==
  \E f \in DocIds(documents) :
     /\ Cardinality(ChunksOf(f)) >= 2
     /\ embedded_chunks(f) = 1
     /\ \E x \in ChunksOf(f) : \E e \in EmbeddingsOf(x.chunk_id) :
          e.embedding = "v2"

\* C11: an ingest that fails leaves the document, chunk and embedding rows,
\* the active document and the cached summary as they were and is answered
\* with an error; an ingest answered with success has its document stored
\* and active; the client handles the error response by setting a non-empty
\* error and leaving fileInfo as it is.
C11_FailedIngest ==
  /\ \A m \in BagToSet(reqs), r \in BagToSet(resps') :
       (/\ m.kind \in IngestKinds /\ reqs' = Take(reqs, m)
        /\ r.kind = m.kind /\ resps' = Put(resps, r)) =>
          IF r.ok
          THEN r.file \in DocIds(documents') /\ active_file_id' = r.file
          ELSE UNCHANGED <<documents, chunks, embeddings, active_file_id,
                           cached_summary>>
  /\ \A m \in BagToSet(resps) :
       (m.kind \in IngestKinds /\ ~m.ok /\ resps' = Take(resps, m)) =>
          (error' # "" /\ fileInfo' = fileInfo)

C11_FailedIngestRolledBack == [][C11_FailedIngest]_vars

\* an upload into a Summarized session with embedded chunks has failed with
\* an error response that has no "error" field, and the client has the error
C11_UploadFailed ==
  /\ error = "Upload failed"
  /\ active_file_id # 0 /\ cached_summary = active_file_id
  /\ embeddings # {}
  /\ ~isUploadingFile
  /\ NoMutatingCallOutstanding

\* C12: a file whose type is not application/pdf and a URL that is empty
\* or blank change nothing and send nothing; every ingest request on its way
\* carries a PDF or a non-blank URL; every stored document is a pdf or url.
C12_InvalidInputIgnored ==
  (lastInput' # lastInput /\ lastInput'.input \in {"text/plain", "", " "}) =>
     UNCHANGED <<storageVars, serverVars, netVars, appVars, askVars>>

C12_ValidRequestsOnly ==
  /\ \A m \in BagToSet(reqs) :
       /\ m.kind = "upload" => m.arg = "application/pdf"
       /\ m.kind = "analyzeUrl" => m.arg \notin {"", " "}
  /\ \A d \in documents : d.source_type \in {"pdf", "url"}

C13_EmptySessionRefuses ==
  \A m \in BagToSet(reqs) :
     (/\ m.kind \in {"summarize", "ask"} /\ reqs' = Take(reqs, m)
      /\ SessionState = "Empty") =>
        /\ resps' = Put(resps, Resp(m.kind, m.retry, FALSE,
                                    "No file uploaded", 0, 0))
        /\ UNCHANGED <<storageVars, serverVars>>

C13_ClientNeedsDocument ==
  \A kind \in {"summarize", "ask"}, retry \in {0, 1} :
     reqs' = Put(reqs, Req(kind, retry)) => fileInfo # 0

C13_NoActiveDocument ==
  [][C13_EmptySessionRefuses /\ C13_ClientNeedsDocument]_vars

\* C14: a summarize answered with success leaves the session Summarized with
\* the returned summary cached and the active document and its rows as they
\* were; the session becomes Summarized by no other step; the client shows
\* the returned summary.
C14_SummarizeCaches ==
  /\ \A m \in BagToSet(reqs), r \in BagToSet(resps') :
       (/\ m.kind = "summarize" /\ reqs' = Take(reqs, m)
        /\ r.kind = "summarize" /\ r.ok /\ resps' = Put(resps, r)) =>
          /\ SessionState # "Empty"
          /\ SessionState' = "Summarized"
          /\ cached_summary' = r.sum
          /\ UNCHANGED <<storageVars, active_file_id>>
  /\ (SessionState # "Summarized" /\ SessionState' = "Summarized") =>
       \E m \in BagToSet(reqs), r \in BagToSet(resps') :
          /\ m.kind = "summarize" /\ reqs' = Take(reqs, m)
          /\ r.kind = "summarize" /\ r.ok /\ resps' = Put(resps, r)
  /\ \A m \in BagToSet(resps) :
       (m.kind = "summarize" /\ m.ok /\ resps' = Take(resps, m)) =>
          summary' = m.sum

C14_LoadedToSummarized == [][C14_SummarizeCaches]_vars

\* a Loaded session was summarized and the client shows the cached summary
C14_SummaryCachedAndShown ==
  /\ srvLast.op = "summarize" /\ srvLast.from = "Loaded"
  /\ cached_summary = active_file_id
  /\ summary = cached_summary /\ fileInfo = active_file_id
  /\ ~isSummarizing

\* C15: an ask, answered or refused, leaves the stored rows, the active
\* document and the cached summary as they were, and on the client neither
\* sending it nor receiving its response changes fileInfo, summary or error.
C15_AskChangesNothing ==
  /\ \A m \in BagToSet(reqs) :
       (m.kind = "ask" /\ reqs' = Take(reqs, m)) =>
          /\ UNCHANGED <<storageVars, serverVars>>
          /\ \E r \in BagToSet(resps') :
               /\ r.kind = "ask" /\ resps' = Put(resps, r)
               /\ (SessionState # "Empty") =>
                     (r.ok \/ r.err = "Generation failed")
  /\ \A retry \in {0, 1} :
       reqs' = Put(reqs, Req("ask", retry)) =>
          UNCHANGED <<fileInfo, summary, error>>
  /\ \A m \in BagToSet(resps) :
       (m.kind = "ask" /\ resps' = Take(resps, m)) =>
          UNCHANGED <<fileInfo, summary, error>>

C15_AskLeavesState == [][C15_AskChangesNothing]_vars

\* an ask in a Summarized session has failed in the generation model and the
\* client shows the failure in the answer box
C15_AskFailedInSummarized ==
  /\ SessionState = "Summarized"
  /\ fileInfo = active_file_id
  /\ answer.kind = "error"
  /\ error = ""
  /\ srvLast.op = "none"
  /\ reqs = EmptyBag /\ resps = EmptyBag

\* a suggest-questions call has failed for the last time: its error response
\* is handled and no retry is armed for it
LastSuggestFailure(m) ==
  /\ m.kind = "suggest" /\ ~m.ok
  /\ resps' = Take(resps, m)
  /\ sqRetryTimers' = sqRetryTimers

\* C16 as stated: whenever a suggest-questions call has failed for the last
\* time, the suggested questions are the default list, questionsGenerated
\* is true and App's error is as it was.
C16_FailureGivesDefaults ==
  \A m \in BagToSet(resps) :
     LastSuggestFailure(m) =>
        /\ suggestedQuestions' = DefaultQuestions
        /\ questionsGenerated'
        /\ error' = error

C16_FailureGivesDefaultsIfShown ==
  \A m \in BagToSet(resps) :
     LastSuggestFailure(m) =>
        /\ error' = error
        /\ IF fileInfo # 0
           THEN suggestedQuestions' = DefaultQuestions /\ questionsGenerated'
           ELSE suggestedQuestions' = NoQuestions /\ ~questionsGenerated'

SecondCallInSuccession ==
  /\ embCall.state = "running"
  /\ embLast.file = embCall.file
  /\ embCall.chunksAtStart = embLast.chunks
  /\ embCall.embeddingsAtStart = embLast.embeddings

C18_PartialFailureReported ==
  /\ [](embCall.state = "running" =>
          /\ embCall.file \in DocIds(documents)
          /\ embCall.embeddingsAtStart \subseteq embeddings
          /\ \A c \in embCall.sent \ (embCall.todo \cup embCall.skipped) :
               \E e \in embeddings : e.chunk_id = c)
  /\ [][(embCall.state = "running" /\ embCall'.state = "idle") =>
          /\ UNCHANGED storageVars
          /\ embLast'.file = embCall.file
          /\ embLast'.unembedded =
               total_chunks(embCall.file) - embedded_chunks(embCall.file)]_vars

\* a call whose second batch failed has returned, reporting a chunk unembedded
C18_LaterBatchFailed ==
  /\ embLast.failed /\ embLast.calls >= 2 /\ embLast.unembedded >= 1
  /\ embedded_chunks(embLast.file) >= 1

\* a call that skipped an oversized chunk has returned
C18_SkippedReported ==
  /\ embLast.file # 0 /\ ~embLast.failed /\ embLast.unembedded >= 1


\* C19: an ask handled while a document is active is answered whatever
\* part of the document's chunks is embedded (the only failure is that of
\* the generation model): the chunks retrieved are never none, they are
\* embedded chunks when the document has some, and chunks found by the
\* lexical fallback when it has none.
C19_AnsweredAtEveryCoverage ==
  /\ [](active_file_id # 0 =>
          /\ Retrieve(active_file_id) # {}
          /\ Embedded(active_file_id) # {} =>
                Retrieve(active_file_id) \subseteq Embedded(active_file_id)
          /\ Embedded(active_file_id) = {} =>
                Retrieve(active_file_id) = Lexical(active_file_id))
  /\ [][\A m \in BagToSet(reqs) :
          (m.kind = "ask" /\ reqs' = Take(reqs, m) /\ active_file_id # 0) =>
             \E r \in BagToSet(resps') :
                /\ resps' = Put(resps, r)
                /\ r.kind = "ask"
                /\ r.ok \/ r.err = "Generation failed"]_vars

\* the client shows an answer about the active document, none of whose chunks
\* has an embedding
C19_AnsweredWithoutEmbeddings ==
  /\ active_file_id # 0 /\ fileInfo = active_file_id
  /\ Embedded(active_file_id) = {}
  /\ answer.kind = "answer"
  /\ reqs = EmptyBag /\ resps = EmptyBag

\* an answer to an ask is on its way for a document embedded in part
C19_AnsweredPartlyEmbedded ==
  /\ active_file_id # 0
  /\ Embedded(active_file_id) # {} /\ Unembedded(active_file_id) # {}
  /\ \E r \in BagToSet(resps) : r.kind = "ask" /\ r.ok /\ r.file = active_file_id


\* a request or a response of one of the kinds is outstanding
Outstanding(kinds) ==
  \/ \E m \in BagToSet(reqs) : m.kind \in kinds
  \/ \E m \in BagToSet(resps) : m.kind \in kinds

\* C20: no operation hangs: an upload, a URL analysis and a summarize that
\* were started are eventually answered and handled, and isUploadingFile,
\* isSummarizing and isAskingQuestion, once true, are eventually false
\* again.
C20_NoOperationHangs ==
  /\ isUploadingFile ~> ~isUploadingFile
  /\ isSummarizing ~> ~isSummarizing
  /\ isAskingQuestion ~> ~isAskingQuestion
  /\ Outstanding(IngestKinds) ~> ~Outstanding(IngestKinds)
  /\ Outstanding({"summarize"}) ~> ~Outstanding({"summarize"})

\* an upload has failed and was reported, then an upload, a summarize and an
\* ask have completed, and every loading flag is false again
C20_AllCompleted ==
  /\ fileInfo # 0 /\ summary # 0 /\ answer.kind = "answer"
  /\ next_file_id > 2
  /\ ~isUploadingFile /\ ~isSummarizing /\ ~isAskingQuestion
  /\ reqs = EmptyBag /\ resps = EmptyBag


\* C21: the client never re-sends a request: no retry timer is ever armed
\* and every request in flight is the first attempt of a user's action or of
\* the automatic generation.
C21_NoRetries ==
  /\ askRetryTimers = 0
  /\ sqRetryTimers = EmptyBag
  /\ \A m \in BagToSet(reqs) : m.retry = 0


\* C22: while an ingest request or its response is outstanding the client
\* sends no request at all: no second ingest, no summarize, ask,
\* suggest-questions or remove, by a control or by a timer.
C22_SerializedWithIngest ==
  [][Outstanding(IngestKinds) =>
       BagCardinality(reqs') <= BagCardinality(reqs)]_vars


\* C23: whenever no request and no response is outstanding, the document
\* the client shows is the session's active document: fileInfo is null
\* exactly when the session is Empty and names the active document
\* otherwise.
C23_ClientRefinesSession ==
  (reqs = EmptyBag /\ resps = EmptyBag) => fileInfo = active_file_id


\* C24: the suggested questions shown with the session's active document
\* are never questions generated from another document, one removed or
\* replaced since.
C24_QuestionsOfShownDocument ==
  (fileInfo # 0 /\ fileInfo = active_file_id /\
   suggestedQuestions.list = "generated") =>
     suggestedQuestions.file = fileInfo


\* C25: for one shown document and without a refresh at most 3
\* suggest-questions requests are sent.
C25_AtMostThreeRequests == sqSent <= 3


\* an ask response that reports a failure is handled
AskFailureHandled(m) ==
  /\ m.kind = "ask" /\ ~m.ok
  /\ resps' = Take(resps, m)

\* C26: a submitted question is sent at most twice. A first attempt that
\* fails with "No file uploaded" arms one retry and shows nothing; any other
\* failure, and a failure of the retry, shows "Error: <message>" and arms
\* nothing; the second request is sent by the retry timer and by nothing
\* else.
C26_RetriedOnce ==
  /\ \A m \in BagToSet(resps) :
       AskFailureHandled(m) =>
          IF m.retry = 0 /\ m.err = "No file uploaded"
          THEN /\ askRetryTimers' = askRetryTimers + 1
               /\ UNCHANGED <<answer, reqs>>
          ELSE /\ answer' = [kind |-> "error", file |-> 0,
                             msg |-> ErrorMessage("ask", m.err)]
               /\ UNCHANGED <<askRetryTimers, reqs>>
  /\ \A m \in BagToSet(reqs') :
       (m.kind = "ask" /\ reqs' = Put(reqs, m)) =>
          IF askRetryTimers' = askRetryTimers - 1
          THEN m.retry = 1 ELSE m.retry = 0 /\ UNCHANGED askRetryTimers

C26_SentAtMostTwice == [][C26_RetriedOnce]_vars

\* the retry of a question failed as the first attempt had and the failure
\* is shown
C26_RetryFailedToo ==
  /\ answer = [kind |-> "error", file |-> 0, msg |-> "No file uploaded"]
  /\ askRetryTimers = 0
  /\ \A m \in BagToSet(reqs) \cup BagToSet(resps) : m.kind # "ask"


\* C27: when the response of a failed summarize is handled, error becomes
\* the failure message (never empty), summary becomes empty whatever was
\* shown before, and fileInfo stays.
C27_FailedSummarize ==
  \A m \in BagToSet(resps) :
     (m.kind = "summarize" /\ ~m.ok /\ resps' = Take(resps, m)) =>
        /\ error' = ErrorMessage("summarize", m.err) /\ error' # ""
        /\ summary' = 0
        /\ fileInfo' = fileInfo

C27_FailedSummarizeClears == [][C27_FailedSummarize]_vars

\* the document shown was summarized, and the summarize that followed has
\* failed: the summary is gone though the session still caches it
C27_SummaryLostOnFailure ==
  /\ fileInfo # 0 /\ fileInfo = active_file_id
  /\ cached_summary = fileInfo /\ srvLast.op = "summarize"
  /\ summary = 0 /\ error = "Generation failed"
  /\ ~isSummarizing


RECURSIVE CountOf(_, _)
\* the number of copies the bag holds of the messages in S
CountOf(bag, S) ==
  IF S = {} THEN 0
  ELSE LET m == CHOOSE x \in S : TRUE
       IN  CopiesIn(m, bag) + CountOf(bag, S \ {m})

\* the number of requests and responses of the kinds that are outstanding
OutstandingCount(kinds) ==
  CountOf(reqs, {m \in BagToSet(reqs) : m.kind \in kinds}) +
  CountOf(resps, {m \in BagToSet(resps) : m.kind \in kinds})

\* C28: at most one remove request is outstanding at any time.
C28_OneRemoveAtATime == OutstandingCount({"remove"}) <= 1


\* C29: at most one ask request is outstanding at any time, and isAsking is
\* true whenever one is.
C29_OneAskAtATime ==
  /\ OutstandingCount({"ask"}) <= 1
  /\ OutstandingCount({"ask"}) = 1 => isAsking


\* C30: at most one suggest-questions request is outstanding at any time.
C30_OneSuggestAtATime == OutstandingCount({"suggest"}) <= 1

=============================================================================
